---- MODULE Spec2Model ----
(***************************************************************************)
(* Model of package exchange (interface.go): the session identity          *)
(* allocator (lastSessionID, createSession) and the context-scoped session *)
(* registry (NewSession, GetOrCreateSession).                              *)
(*                                                                         *)
(* Contexts are immutable nodes of a tree rooted at context.Background().  *)
(* A node other than the root is either derived by a caller                *)
(* (context.WithCancel / WithDeadline) or derived by createSession with    *)
(* context.WithValue, and then carries a pointer to a sessionContextValue  *)
(* on the heap.                                                            *)
(***************************************************************************)
EXTENDS Naturals, Integers, Sequences, FiniteSets, TLC

\* ---- bounds -------------------------------------------------------------
\* registry calls and caller-side derivations performed in one behaviour
MaxOps == 4

\* largest SessionID value a caller renders
MaxID == 120

\* one goroutine per call, numbered in the order in which the calls begin
Procs == 1..MaxOps

\* nil pointer / nil context / "no parent"
Nil == 0

\* context.Background(): the root of every context, never canceled, no values
Background == 1

VARIABLES
  lastSessionID,  \* var lastSessionID uint64
  ctxs,           \* every context.Context created so far
  vals,           \* heap of *sessionContextValue
  pc,             \* position of each goroutine inside its call
  op,             \* which function the goroutine runs
  arg,            \* the ctx argument of the call
  id,             \* the SessionID the call holds (createSession's id, s.sesID)
  ctxValue,       \* local ctxValue of createSession (pointer into vals)
  ctx,            \* the context the call holds for return
  nalloc,         \* atomic increments performed by the call
  ncalls,         \* calls begun so far
  rend            \* two SessionIDs a caller holds and their String() results

vars == <<lastSessionID, ctxs, vals, pc, op, arg, id, ctxValue,
          ctx, nalloc, ncalls, rend>>

\* ---- type SessionID ------------------------------------------------------
\* a validity check that also rejects the first id
IsZeroOffByOne(sid) == sid <= 1

\* SessionID{id uint64}: the model value of a SessionID is its id field.
\* func (id SessionID) IsZero() bool { return id.id == 0 }
IsZero(sid) == sid = 0

\* text is a sequence of one-character strings
DigitChars == <<"0", "1", "2", "3", "4", "5", "6", "7", "8", "9">>

\* the verb %d of fmt.Sprintf for an unsigned value: most significant digit
\* first, no sign, no padding
RECURSIVE Decimal(_)
Decimal(n) ==
  IF n < 10 THEN <<DigitChars[n + 1]>>
  ELSE Decimal(n \div 10) \o <<DigitChars[(n % 10) + 1]>>

\* the literal text of the format string "session-%d"
Prefix == <<"s", "e", "s", "s", "i", "o", "n", "-">>

\* a rendering that keeps the last digit only
StringLowDigit(sid) == Prefix \o <<DigitChars[(sid % 10) + 1]>>

\* func (id SessionID) String() string {
\*   return fmt.Sprintf("session-%d", id.id) }
String(sid) == Prefix \o Decimal(sid)

\* ---- context package semantics used by the code ---------------------------
\* ctx.Value(sessionContextKey{}).(*sessionContextValue): the nearest
\* sessionContextValue on the path from c to its root, Nil when there is none.
RECURSIVE Value(_)
Value(c) ==
  IF c = Nil THEN Nil
  ELSE IF ctxs[c].value # Nil THEN ctxs[c].value
  ELSE Value(ctxs[c].parent)

\* a lookup that inspects the context itself and not what it was derived from
HasSessionOwn(c) == ctxs[c].value # Nil

\* the ", ok" of the type assertion in NewSession and GetOrCreateSession
HasSession(c) == Value(c) # Nil

\* ctx.Err() # nil: a context is canceled when it or an ancestor was canceled
RECURSIVE Canceled(_)
Canceled(c) ==
  IF c = Nil THEN FALSE
  ELSE ctxs[c].canceled \/ Canceled(ctxs[c].parent)

\* c is d or an ancestor of d
RECURSIVE IsAncestor(_, _)
IsAncestor(c, d) ==
  IF d = Nil THEN FALSE
  ELSE c = d \/ IsAncestor(c, ctxs[d].parent)

\* a load in place of the add: the counter is read and never advanced
LoadUint64(v, delta) == v

\* a store in place of the add: the counter is set to the increment
StoreUint64(v, delta) == delta

\* the increment applied twice
AddTwice(v, delta) == v + delta + delta

\* atomic.AddUint64(&lastSessionID, 1): the new value, stored and returned
AtomicAddUint64(v, delta) == v + delta

\* ---- initial state --------------------------------------------------------
\* nothing rendered: the caller holds two zero SessionIDs and no text
NoRender == [i \in 1..2 |-> [sid |-> 0, str |-> <<>>]]

RootCtx == [parent |-> Nil, value |-> Nil, canceled |-> FALSE]

Init ==
  /\ lastSessionID = 0
  /\ ctxs = <<RootCtx>>
  /\ vals = <<>>
  /\ pc = [p \in Procs |-> "idle"]
  /\ op = [p \in Procs |-> "none"]
  /\ arg = [p \in Procs |-> Nil]
  /\ id = [p \in Procs |-> 0]
  /\ ctxValue = [p \in Procs |-> Nil]
  /\ ctx = [p \in Procs |-> Nil]
  /\ nalloc = [p \in Procs |-> 0]
  /\ ncalls = 0
  /\ rend = NoRender

\* contexts some caller holds: the root, the contexts callers derived and the
\* contexts calls returned; the context of a createSession still running is
\* known to that goroutine only
Published == (1..Len(ctxs)) \ {ctx[p] : p \in {q \in Procs : pc[q] = "link"}}

\* contexts derived by callers so far
NumDerived ==
  Cardinality({d \in 1..Len(ctxs) : d # Background /\ ctxs[d].value = Nil})

\* ---- caller-side context operations ----------------------------------------
\* context.WithCancel(parent) / WithDeadline(parent, d): a child without a
\* session value of its own
Derive(c) ==
  /\ c \in Published
  /\ ncalls + NumDerived < MaxOps
  /\ ctxs' = Append(ctxs, [parent |-> c, value |-> Nil, canceled |-> FALSE])
  /\ UNCHANGED <<lastSessionID, vals, pc, op, arg, id, ctxValue, ctx, nalloc,
                 ncalls, rend>>

\* the cancel func of a context the caller holds, or its deadline passing
Cancel(c) ==
  /\ c \in Published
  /\ c # Background
  /\ ctxs[c].value = Nil
  /\ ~ctxs[c].canceled
  /\ ctxs' = [ctxs EXCEPT ![c].canceled = TRUE]
  /\ UNCHANGED <<lastSessionID, vals, pc, op, arg, id, ctxValue,
                 ctx, nalloc, ncalls, rend>>

\* ---- NewSession / GetOrCreateSession ----------------------------------------
\* s.sesID and s.sesCtx of the binding the lookup finds from c (line 90)
SesID(c) == vals[Value(c)].sesID

\* the context passed in returned in place of the binding's context
SesCtxArg(c) == c

SesCtx(c) == vals[Value(c)].sesCtx

\* a goroutine enters NewSession(c) or GetOrCreateSession(c)
Enter(p, f, c) ==
  /\ p = ncalls + 1
  /\ pc[p] = "idle"
  /\ c \in Published
  /\ op' = [op EXCEPT ![p] = f]
  /\ arg' = [arg EXCEPT ![p] = c]
  /\ ncalls + NumDerived < MaxOps
  /\ ncalls' = ncalls + 1

\* if s, ok := ctx.Value(sessionContextKey{}).(*sessionContextValue); ok
\*   NewSession (line 74):         return ctx
\*   GetOrCreateSession (line 90): return s.sesID, s.sesCtx
\* The call reads immutable contexts and a binding that was completed before
\* its context was handed out, so it is one step.
Found(p, f, c) ==
  /\ Enter(p, f, c)
  /\ HasSession(c)
  /\ id' = [id EXCEPT ![p] = IF f = "GetOrCreateSession" THEN SesID(c) ELSE 0]
  /\ ctx' = [ctx EXCEPT ![p] =
              IF f = "GetOrCreateSession" THEN SesCtx(c) ELSE c]
  /\ ctxValue' = [ctxValue EXCEPT ![p] = Nil]
  /\ nalloc' = [nalloc EXCEPT ![p] = 0]
  /\ pc' = [pc EXCEPT ![p] = "done"]
  /\ UNCHANGED <<lastSessionID, ctxs, vals, rend>>

\* the lookup fails and the call enters createSession, line 97:
\*   id := SessionID{atomic.AddUint64(&lastSessionID, 1)}
Alloc(p, f, c) ==
  /\ Enter(p, f, c)
  /\ ~HasSession(c)
  /\ lastSessionID' = AtomicAddUint64(lastSessionID, 1)
  /\ id' = [id EXCEPT ![p] = lastSessionID']
  /\ ctxValue' = [ctxValue EXCEPT ![p] = Nil]
  /\ ctx' = [ctx EXCEPT ![p] = Nil]
  /\ nalloc' = [nalloc EXCEPT ![p] = 1]
  /\ pc' = [pc EXCEPT ![p] = "derive"]
  /\ UNCHANGED <<ctxs, vals, rend>>

\* a binding built without its id: &sessionContextValue{}
WithValueZeroID(p) ==
  /\ pc[p] = "derive"
  /\ vals' = Append(vals, [sesID |-> 0, sesCtx |-> Nil])
  /\ ctxValue' = [ctxValue EXCEPT ![p] = Len(vals) + 1]
  /\ ctxs' = Append(ctxs, [parent |-> arg[p], value |-> Len(vals) + 1,
                           canceled |-> FALSE])
  /\ ctx' = [ctx EXCEPT ![p] = Len(ctxs) + 1]
  /\ pc' = [pc EXCEPT ![p] = "link"]
  /\ UNCHANGED <<lastSessionID, op, arg, id, nalloc, ncalls, rend>>

\* createSession, lines 100-103:
\*   ctxValue := &sessionContextValue{sesID: id}
\*   ctx = context.WithValue(ctx, sessionContextKey{}, ctxValue)
WithValue(p) ==
  /\ pc[p] = "derive"
  /\ vals' = Append(vals, [sesID |-> id[p], sesCtx |-> Nil])
  /\ ctxValue' = [ctxValue EXCEPT ![p] = Len(vals) + 1]
  /\ ctxs' = Append(ctxs, [parent |-> arg[p], value |-> Len(vals) + 1,
                           canceled |-> FALSE])
  /\ ctx' = [ctx EXCEPT ![p] = Len(ctxs) + 1]
  /\ pc' = [pc EXCEPT ![p] = "link"]
  /\ UNCHANGED <<lastSessionID, op, arg, id, nalloc, ncalls, rend>>

\* the back-reference set to the context passed in, not to the derived one
LinkArg(p) ==
  /\ pc[p] = "link"
  /\ vals' = [vals EXCEPT ![ctxValue[p]].sesCtx = arg[p]]
  /\ pc' = [pc EXCEPT ![p] = "done"]
  /\ UNCHANGED <<lastSessionID, ctxs, op, arg, id, ctxValue, ctx, nalloc,
                 ncalls, rend>>

\* createSession, lines 110-112: ctxValue.sesCtx = ctx; return id, ctx
\* (NewSession drops the id, line 76, and returns the context)
Link(p) ==
  /\ pc[p] = "link"
  /\ vals' = [vals EXCEPT ![ctxValue[p]].sesCtx = ctx[p]]
  /\ pc' = [pc EXCEPT ![p] = "done"]
  /\ UNCHANGED <<lastSessionID, ctxs, op, arg, id, ctxValue, ctx, nalloc,
                 ncalls, rend>>

Ops == {"NewSession", "GetOrCreateSession"}

\* a caller derives a context or begins the next call, on a context it holds,
\* while the bound on operations allows one more
Next ==
  \/ /\ ncalls + NumDerived < MaxOps
     /\ \E c \in Published : Derive(c)
  \/ /\ ncalls + NumDerived < MaxOps
     /\ \E f \in Ops, c \in Published : Found(ncalls + 1, f, c)
  \/ /\ ncalls + NumDerived < MaxOps
     /\ \E f \in Ops, c \in Published : Alloc(ncalls + 1, f, c)
  \/ \E p \in Procs : WithValue(p)
  \/ \E p \in Procs : Link(p)

Spec == Init /\ [][Next]_vars

\* the registry in use while callers cancel their contexts
NextCancel ==
  \/ \E c \in Published : Cancel(c)
  \/ /\ ncalls + NumDerived < MaxOps
     /\ \E c \in Published : Derive(c)
  \/ /\ ncalls + NumDerived < MaxOps
     /\ \E f \in Ops, c \in Published : Found(ncalls + 1, f, c)
  \/ /\ ncalls + NumDerived < MaxOps
     /\ \E f \in Ops, c \in Published : Alloc(ncalls + 1, f, c)
  \/ \E p \in Procs : WithValue(p)
  \/ \E p \in Procs : Link(p)

SpecCancel == Init /\ [][NextCancel]_vars

\* ---- SessionID.String ------------------------------------------------------
\* a caller holding any two SessionID values, the zero value included
InitString ==
  /\ lastSessionID = 0
  /\ ctxs = <<RootCtx>>
  /\ vals = <<>>
  /\ pc = [p \in Procs |-> "idle"]
  /\ op = [p \in Procs |-> "none"]
  /\ arg = [p \in Procs |-> Nil]
  /\ id = [p \in Procs |-> 0]
  /\ ctxValue = [p \in Procs |-> Nil]
  /\ ctx = [p \in Procs |-> Nil]
  /\ nalloc = [p \in Procs |-> 0]
  /\ ncalls = 0
  /\ \E a, b \in 0..MaxID :
       rend = [i \in 1..2 |-> [sid |-> IF i = 1 THEN a ELSE b, str |-> <<>>]]

\* the caller calls String() on the i-th SessionID it holds
Render(i) ==
  /\ rend[i].str = <<>>
  /\ rend' = [rend EXCEPT ![i].str = String(rend[i].sid)]
  /\ UNCHANGED <<lastSessionID, ctxs, vals, pc, op, arg, id, ctxValue, ctx,
                 nalloc, ncalls>>

NextString == \E i \in 1..2 : Render(i)

SpecString == InitString /\ [][NextString]_vars

\* ==== properties ============================================================

\* c, or a context c was derived from, carries a session binding
Carries(c) == \E a \in 1..Len(ctxs) : IsAncestor(a, c) /\ ctxs[a].value # Nil

\* the call of p is inside createSession
InFlight(p) == pc[p] \in {"derive", "link"}

\* the call of p performed an allocation (it may still be running)
Allocated(p) == pc[p] # "idle" /\ nalloc[p] = 1

\* allocations performed so far: every one has built its binding or is about to
NumAllocated == Len(vals) + Cardinality({p \in Procs : pc[p] = "derive"})

\* the ids of all allocations performed so far
AllocatedIDs ==
  {vals[i].sesID : i \in 1..Len(vals)}
    \cup {id[p] : p \in {q \in Procs : pc[q] = "derive"}}

\* C1: under every interleaving of NewSession and GetOrCreateSession calls no
\* two allocations of createSession return the same SessionID, so no two
\* session bindings carry the same SessionID.
C1_UniqueIDs ==
  /\ \A p, q \in Procs :
       p # q /\ Allocated(p) /\ Allocated(q) => id[p] # id[q]
  /\ \A i, j \in 1..Len(vals) : i # j => vals[i].sesID # vals[j].sesID

\* two createSession calls for different ancestries ran concurrently and both
\* built their binding
C1_Witness ==
  \E p, q \in Procs :
    /\ p # q
    /\ pc[p] = "link" /\ pc[q] = "link"
    /\ ctxs[ctx[p]].parent # ctxs[ctx[q]].parent

\* C2: GetOrCreateSession(s2), for s2 derived in any number of steps from a
\* scope s1 that session creation produced with id i, returns exactly (i, s1).
C2_DerivedLookup ==
  \A p \in Procs : \A s1 \in 1..Len(ctxs) :
    ( /\ pc[p] = "done"
      /\ op[p] = "GetOrCreateSession"
      /\ ctxs[s1].value # Nil
      /\ IsAncestor(s1, arg[p]) )
    => /\ id[p] = vals[ctxs[s1].value].sesID
       /\ ctx[p] = s1

\* a GetOrCreateSession call returned for a scope derived from a bound scope
C2_Witness ==
  \E p \in Procs :
    /\ pc[p] = "done"
    /\ op[p] = "GetOrCreateSession"
    /\ ctxs[arg[p]].value = Nil
    /\ Carries(arg[p])
    /\ ctx[p] # arg[p]

\* two calls of NewSession with the same argument have returned
SameArgNewSession(p, q) ==
  /\ p # q
  /\ pc[p] = "done" /\ pc[q] = "done"
  /\ op[p] = "NewSession" /\ op[q] = "NewSession"
  /\ arg[p] = arg[q]

\* C3 (as claimed): for all scopes s, also one without a binding, two calls of
\* NewSession(s) yield scopes whose bound SessionID is identical.
C3_AsClaimed ==
  \A p, q \in Procs :
    SameArgNewSession(p, q) => SesID(ctx[p]) = SesID(ctx[q])

\* C3 (amended): for all scopes s that carry a session binding, directly or
\* through an ancestor, two calls of NewSession(s) yield scopes whose bound
\* SessionID is identical.
C3_BoundIdempotent ==
  \A p, q \in Procs :
    SameArgNewSession(p, q) /\ Carries(arg[p])
      => SesID(ctx[p]) = SesID(ctx[q])

\* NewSession returned twice for the same scope derived from a bound scope
C3_Witness ==
  \E p, q \in Procs :
    /\ SameArgNewSession(p, q)
    /\ Carries(arg[p])
    /\ ctxs[arg[p]].value = Nil

\* the calls of p and q are on distinct sibling scopes that callers derived
\* from one scope without a binding
FreshSiblings(p, q) ==
  /\ p # q
  /\ pc[p] # "idle" /\ pc[q] # "idle"
  /\ arg[p] # arg[q]
  /\ arg[p] # Background /\ arg[q] # Background
  /\ ctxs[arg[p]].parent = ctxs[arg[q]].parent
  /\ ctxs[arg[p]].value = Nil /\ ctxs[arg[q]].value = Nil
  /\ ~Carries(ctxs[arg[p]].parent)

\* C4 (as claimed): registry calls racing on freshly derived sibling scopes of
\* one root without a binding perform exactly one allocation together and all
\* observe the same id.
C4_AsClaimed ==
  \A p, q \in Procs :
    FreshSiblings(p, q) /\ InFlight(p) /\ InFlight(q)
      => /\ nalloc[p] + nalloc[q] = 1
         /\ id[p] = id[q]

\* C4 (amended): each of the registry calls racing on freshly derived sibling
\* scopes of one root without a binding performs its own allocation, and the
\* calls observe pairwise different ids.
C4_OneAllocationEach ==
  \A p, q \in Procs :
    FreshSiblings(p, q) /\ InFlight(p) /\ InFlight(q)
      => /\ nalloc[p] = 1 /\ nalloc[q] = 1
         /\ id[p] # id[q]

\* two calls on sibling scopes are inside createSession at the same time
C4_Witness ==
  \E p, q \in Procs :
    FreshSiblings(p, q) /\ pc[p] = "link" /\ pc[q] = "link"

\* C5: every SessionID the allocator returned, hence every id GetOrCreateSession
\* returned and every id NewSession bound, is not zero; IsZero is true exactly
\* of the SessionID with value 0.
C5_NeverZero ==
  /\ \A p \in Procs : Allocated(p) => ~IsZero(id[p])
  /\ \A p \in Procs :
       pc[p] = "done" /\ op[p] = "GetOrCreateSession" => ~IsZero(id[p])
  /\ \A i \in 1..Len(vals) : ~IsZero(vals[i].sesID)
  /\ \A n \in 0..lastSessionID : IsZero(n) <=> n = 0

\* GetOrCreateSession returned a freshly allocated id after an earlier allocation
C5_Witness ==
  \E p \in Procs :
    /\ pc[p] = "done"
    /\ op[p] = "GetOrCreateSession"
    /\ nalloc[p] = 1
    /\ Len(vals) >= 2

\* C6: NewSession(s) on a scope s that carries a binding, directly or through
\* an ancestor, returns s itself.
C6_ReturnsArgument ==
  \A p \in Procs :
    pc[p] = "done" /\ op[p] = "NewSession" /\ Carries(arg[p])
      => ctx[p] = arg[p]

\* NewSession returned for a scope derived from a bound scope
C6_Witness ==
  \E p \in Procs :
    /\ pc[p] = "done"
    /\ op[p] = "NewSession"
    /\ Carries(arg[p])
    /\ ctxs[arg[p]].value = Nil

\* C7: once the context passed to NewSession is canceled, the session context
\* that GetOrCreateSession reports for the context NewSession returned is
\* canceled too, whether or not the passed context already saw a binding.
C7_ClosedWhenCanceled ==
  \A p \in Procs :
    pc[p] = "done" /\ op[p] = "NewSession" /\ Canceled(arg[p])
      => Canceled(SesCtx(ctx[p]))

\* C8: the counter never decreases, and every allocation returns an id
\* strictly larger than the id of every allocation made before it.
C8_StrictlyIncreasing ==
  [][ /\ lastSessionID' >= lastSessionID
      /\ \A p \in Procs :
           pc[p] # "derive" /\ pc'[p] = "derive"
             => /\ \A n \in AllocatedIDs : n < id'[p]
                /\ \A q \in Procs : q # p /\ Allocated(q) => id[q] < id'[p]
    ]_vars

\* an allocation was made after another call's allocation had returned
C8_Witness ==
  \E p, q \in Procs :
    /\ pc[q] = "done" /\ nalloc[q] = 1
    /\ pc[p] = "derive"
    /\ id[q] < id[p]

\* C9: a call on a scope that carries a binding allocates nothing and leaves
\* the counter and every binding unchanged; a call on a scope without a
\* binding allocates exactly once, when it begins, and its later steps leave
\* the counter and the completed bindings unchanged.
C9_Frame ==
  [][ /\ \A p \in Procs :
           ncalls' # ncalls /\ p = ncalls'
             => IF Carries(arg'[p])
                THEN /\ lastSessionID' = lastSessionID
                     /\ vals' = vals /\ ctxs' = ctxs
                     /\ nalloc'[p] = 0 /\ pc'[p] = "done"
                ELSE /\ lastSessionID' = lastSessionID + 1
                     /\ nalloc'[p] = 1
      /\ \A p \in Procs :
           InFlight(p) /\ pc'[p] # pc[p]
             => /\ lastSessionID' = lastSessionID
                /\ nalloc'[p] = 1
      /\ \A i \in 1..Len(vals) : vals[i].sesCtx # Nil => vals'[i] = vals[i]
    ]_vars

\* a call on a scope derived from a bound scope returned without allocating,
\* after two allocations
C9_Witness ==
  \E p \in Procs :
    /\ pc[p] = "done"
    /\ Carries(arg[p]) /\ ctxs[arg[p]].value = Nil
    /\ nalloc[p] = 0
    /\ lastSessionID = 2

\* C10: the first GetOrCreateSession(S0) of a process returns id 1 and a new
\* scope S1 derived from S0, GetOrCreateSession(S1) returns the same id and
\* S1 again, and in general the k-th allocation returns the id of value k.
C10_Scenario ==
  /\ AllocatedIDs = 1..NumAllocated
  /\ \A p \in Procs :
       pc[p] = "done" /\ op[p] = "GetOrCreateSession" /\ ncalls = 1
         => /\ id[p] = 1
            /\ ctx[p] # arg[p]
            /\ ctxs[ctx[p]].parent = arg[p]
            /\ ctxs[ctx[p]].value # Nil
  /\ \A p, q \in Procs :
       ( /\ pc[p] = "done" /\ pc[q] = "done"
         /\ op[p] = "GetOrCreateSession" /\ op[q] = "GetOrCreateSession"
         /\ nalloc[q] = 1
         /\ arg[p] = ctx[q] )
       => id[p] = id[q] /\ ctx[p] = ctx[q]

\* the scenario has run: GetOrCreateSession(S0) gave (1, S1) and a second call,
\* on S1, has returned
C10_Witness ==
  \E p, q \in Procs :
    /\ pc[p] = "done" /\ pc[q] = "done"
    /\ op[p] = "GetOrCreateSession" /\ op[q] = "GetOrCreateSession"
    /\ nalloc[q] = 1 /\ id[q] = 1
    /\ arg[p] = ctx[q]
    /\ ncalls = 2

\* the text after the prefix, read as a decimal number
RECURSIVE ParseDecimal(_)
ParseDecimal(t) ==
  IF t = <<>> THEN 0
  ELSE 10 * ParseDecimal(SubSeq(t, 1, Len(t) - 1))
         + (CHOOSE d \in 0..9 : DigitChars[d + 1] = t[Len(t)])

\* both SessionIDs the caller holds have been rendered
BothRendered == rend[1].str # <<>> /\ rend[2].str # <<>>

\* C11: String() returns the text "session-" followed by the decimal rendering
\* of the value (7 renders as "session-7"), so two SessionIDs render equal
\* exactly when their values are equal.
C11_String ==
  /\ \A i \in 1..2 :
       rend[i].str # <<>>
         => /\ Len(rend[i].str) > Len(Prefix)
            /\ SubSeq(rend[i].str, 1, 8) = <<"s", "e", "s", "s", "i", "o", "n", "-">>
            /\ \A k \in 9..Len(rend[i].str) :
                 \E d \in 1..10 : DigitChars[d] = rend[i].str[k]
            /\ ParseDecimal(SubSeq(rend[i].str, 9, Len(rend[i].str)))
                 = rend[i].sid
            /\ (rend[i].sid > 0 => rend[i].str[9] # "0")
            /\ (rend[i].sid = 7
                 => rend[i].str = <<"s", "e", "s", "s", "i", "o", "n", "-", "7">>)
  /\ BothRendered => (rend[1].str = rend[2].str <=> rend[1].sid = rend[2].sid)

\* two different values with the same last digit have both been rendered
C11_Witness ==
  /\ BothRendered
  /\ rend[1].sid = 7
  /\ rend[2].sid = 117

\* C13: every session binding whose back-reference is set stores exactly the
\* derived scope it is attached to, that scope is a direct child of the scope
\* passed to the creating call, and the lookup from the stored scope finds the
\* same binding; a binding whose back-reference is unset belongs to a
\* createSession still running and no call looks it up or returns it.
C13_SelfReferential ==
  /\ \A i \in 1..Len(vals) : \E p \in Procs : ctxValue[p] = i
  /\ \A p \in Procs :
       ctxValue[p] # Nil
         => /\ ctx[p] # Nil
            /\ ctxs[ctx[p]].value = ctxValue[p]
            /\ ctx[p] # arg[p]
            /\ ctxs[ctx[p]].parent = arg[p]
            /\ IF vals[ctxValue[p]].sesCtx = Nil
               THEN /\ pc[p] = "link"
                    /\ \A d \in 1..Len(ctxs) : ctxs[d].parent # ctx[p]
                    /\ \A q \in Procs :
                         q # p => arg[q] # ctx[p] /\ ctx[q] # ctx[p]
               ELSE /\ vals[ctxValue[p]].sesCtx = ctx[p]
                    /\ Value(vals[ctxValue[p]].sesCtx) = ctxValue[p]
                    /\ vals[Value(vals[ctxValue[p]].sesCtx)].sesCtx = ctx[p]
  /\ \A p \in Procs :
       pc[p] # "idle" /\ Value(arg[p]) # Nil
         => vals[Value(arg[p])].sesCtx # Nil
  /\ \A p \in Procs :
       pc[p] = "done"
         => /\ ctx[p] # Nil
            /\ Value(ctx[p]) # Nil
            /\ vals[Value(ctx[p])].sesCtx # Nil
            /\ op[p] = "GetOrCreateSession"
                 => ctx[p] = vals[Value(ctx[p])].sesCtx

\* a createSession has built a binding and not yet set its back-reference,
\* while GetOrCreateSession has returned a completed binding's scope for a
\* scope derived from it
C13_Witness ==
  \E p, q \in Procs :
    /\ pc[p] = "link" /\ vals[ctxValue[p]].sesCtx = Nil
    /\ pc[q] = "done" /\ op[q] = "GetOrCreateSession"
    /\ nalloc[q] = 0
    /\ ctx[q] # arg[q]

\* the number of contexts with a binding of their own on the path from c to
\* the root
RECURSIVE BindingsOnPath(_)
BindingsOnPath(c) ==
  IF c = Nil THEN 0
  ELSE (IF ctxs[c].value # Nil THEN 1 ELSE 0) + BindingsOnPath(ctxs[c].parent)

\* C14: no path from a scope to its root holds more than one session binding,
\* a binding is never attached below a scope that already sees one, and the
\* binding and id visible from a scope never change once it has one.
C14_NoShadowing ==
  [][ /\ \A c \in 1..Len(ctxs') : BindingsOnPath(c)' <= 1
      /\ \A c \in 1..Len(ctxs') :
           ctxs'[c].value # Nil /\ c > Len(ctxs)
             => BindingsOnPath(ctxs'[c].parent) = 0
      /\ \A c \in 1..Len(ctxs) :
           BindingsOnPath(c) > 0
             => /\ Value(c)' = Value(c)
                /\ vals'[Value(c)].sesID = vals[Value(c)].sesID
    ]_vars

\* two sessions were created under one scope and a later call on a scope
\* derived from one of them returned without creating a third
C14_Witness ==
  \E c1, c2 \in 1..Len(ctxs) : \E p \in Procs :
    /\ c1 # c2
    /\ ctxs[c1].value # Nil /\ ctxs[c2].value # Nil
    /\ ctxs[c1].parent = ctxs[c2].parent
    /\ pc[p] = "done"
    /\ arg[p] # c1 /\ IsAncestor(c1, arg[p])
    /\ Len(vals) = 2

\* C15: the scope GetOrCreateSession(s) returns carries a binding whose id is
\* the id returned, whether s carried a binding or not, and
\* GetOrCreateSession on that returned scope returns the same id and scope
\* and allocates nothing.
C15_FixedPoint ==
  /\ \A p \in Procs :
       pc[p] = "done" /\ op[p] = "GetOrCreateSession"
         => /\ Carries(ctx[p])
            /\ vals[Value(ctx[p])].sesID = id[p]
  /\ \A p, q \in Procs :
       ( /\ pc[p] = "done" /\ pc[q] = "done"
         /\ op[p] = "GetOrCreateSession" /\ op[q] = "GetOrCreateSession"
         /\ arg[q] = ctx[p] )
       => /\ id[q] = id[p]
          /\ ctx[q] = ctx[p]
          /\ nalloc[q] = 0

\* GetOrCreateSession returned for a scope derived from a bound scope and was
\* then applied to the scope it returned
C15_Witness ==
  \E p, q \in Procs :
    /\ p # q
    /\ pc[p] = "done" /\ pc[q] = "done"
    /\ op[p] = "GetOrCreateSession" /\ op[q] = "GetOrCreateSession"
    /\ nalloc[p] = 0 /\ ctx[p] # arg[p]
    /\ arg[q] = ctx[p]
    /\ p < q

\* the calls that have performed their atomic increment
Increments == Cardinality({p \in Procs : nalloc[p] = 1})

\* C16 (as claimed): in every reachable state the counter equals the number
\* of allocations performed, which equals the number of session bindings ever
\* created, and every bound SessionID lies between 1 and the counter.
C16_AsClaimed ==
  /\ lastSessionID = Increments
  /\ lastSessionID = Len(vals)
  /\ \A i \in 1..Len(vals) :
       1 <= vals[i].sesID /\ vals[i].sesID <= lastSessionID

\* C16 (amended): in every reachable state the counter equals the number of
\* increments performed, which equals the number of session bindings ever
\* created plus the number of createSession calls that hold an id and have
\* not yet built their binding, and every bound SessionID lies between 1 and
\* the counter.
C16_CounterCounts ==
  /\ lastSessionID = Increments
  /\ lastSessionID
       = Len(vals) + Cardinality({p \in Procs : pc[p] = "derive"})
  /\ \A i \in 1..Len(vals) :
       1 <= vals[i].sesID /\ vals[i].sesID <= lastSessionID

\* two sessions are bound while a third createSession holds its id and has not
\* built its binding
C16_Witness ==
  /\ Len(vals) = 2
  /\ lastSessionID = 3
  /\ \E p \in Procs : pc[p] = "derive" /\ id[p] = 3

====
